---- MODULE Spec2Model ----
(***************************************************************************)
(* A model of the GitHub Actions MCP server: the owner/repository          *)
(* validators, the error taxonomy, the request gateway (githubRequest)     *)
(* with its process-wide quota counter and per-call timeout, the nine      *)
(* operations and the tool-invocation handler.                             *)
(*                                                                         *)
(* Strings the code inspects character by character (owner, repo) are      *)
(* sequences of one-character strings; messages and URLs are sequences of  *)
(* string parts, so that template literals are concatenations (\o) and     *)
(* startsWith is a prefix test.                                            *)
(***************************************************************************)
EXTENDS Integers, Sequences, FiniteSets, TLC

VARIABLES
    requestCount,           \* utils.ts: let requestCount
    requestCountResetTime,  \* utils.ts: let requestCountResetTime
    now,                    \* Date.now(), in milliseconds
    inv,                    \* per task: the invocation in progress
    fnIn,                   \* input of the pure function under study, or the
                            \* number of calls admitted since the last reset
    fnOut                   \* its result, or the admissions of the last 60 s

vars == <<requestCount, requestCountResetTime, now, inv, fnIn, fnOut>>

\* ------------------------------------------------------------------ bounds

\* The clock never advances past MaxTime (the first window and the start of
\* the one after it).
MaxTime == 61000

\* The asynchronous tasks of the process. Task 1 is the host's sequential
\* caller; task 2 runs only where invocations are studied side by side.
Procs == {1, 2}

\* The validators are applied to every string of at most MaxLen characters (and
\* to strings at the length limit of owner names).
MaxLen == 3

\* ------------------------------------------------------- program constants

MAX_REQUESTS_PER_MINUTE == 60
DEFAULT_TIMEOUT == 30000
WINDOW_MS == 60000
OWNER_MAX_TAIL == 38

\* ------------------------------------------------------------------ strings

Lower == {"a", "b", "o", "c", "t"}
Upper == {"A", "B", "O", "C", "T"}
Digits == {"0", "9"}
Space == {" "}

toLowerChar(c) ==
    CASE c = "A" -> "a"
      [] c = "B" -> "b"
      [] c = "O" -> "o"
      [] c = "C" -> "c"
      [] c = "T" -> "t"
      [] OTHER -> c

toLowerCase(s) == [i \in 1..Len(s) |-> toLowerChar(s[i])]

RECURSIVE trimStart(_)
trimStart(s) ==
    IF s # <<>> /\ Head(s) \in Space THEN trimStart(Tail(s)) ELSE s

RECURSIVE trimEnd(_)
trimEnd(s) ==
    IF s # <<>> /\ s[Len(s)] \in Space
    THEN trimEnd(SubSeq(s, 1, Len(s) - 1))
    ELSE s

trim(s) == trimEnd(trimStart(s))

isAlnum(c) == c \in Lower \cup Digits

\* /^[a-z0-9_.-]+$/
repoCharsetTest(s) ==
    /\ Len(s) >= 1
    /\ \A i \in 1..Len(s) : isAlnum(s[i]) \/ s[i] \in {"_", ".", "-"}

\* a seeded fault: the lookahead after the hyphen is missing
ownerRegexTestNoLookahead(s) ==
    /\ Len(s) >= 1
    /\ isAlnum(s[1])
    /\ Len(s) - 1 <= OWNER_MAX_TAIL
    /\ \A i \in 2..Len(s) : isAlnum(s[i]) \/ s[i] = "-"

\* /^[a-z0-9](?:[a-z0-9]|-(?=[a-z0-9])){0,38}$/
ownerRegexTest(s) ==
    /\ Len(s) >= 1
    /\ isAlnum(s[1])
    /\ Len(s) - 1 <= OWNER_MAX_TAIL
    /\ \A i \in 2..Len(s) :
          \/ isAlnum(s[i])
          \/ s[i] = "-" /\ i + 1 <= Len(s) /\ isAlnum(s[i + 1])

\* --------------------------------------------------------------- error data

Undefined == "<undefined>"
Absent == -1

NoPayload ==
    [message |-> <<Undefined>>, reset_at |-> Absent, shape |-> "none",
     timeout_ms |-> Absent, error_code |-> Undefined]

\* the object literal { message }
MessagePayload(m) == [NoPayload EXCEPT !.message = m, !.shape = "object"]

NoError ==
    [name |-> "none", message |-> <<>>, status |-> 0, response |-> NoPayload,
     resetAt |-> Absent, timeoutMs |-> Absent, errorCode |-> Undefined,
     causeCode |-> Undefined, issues |-> <<>>]

\* new Error(message)
PlainError(msg) == [NoError EXCEPT !.name = "Error", !.message = msg]

\* a ZodError with one issue per violated path
ZodError(issues) ==
    [NoError EXCEPT !.name = "ZodError", !.message = <<"zod">>, !.issues = issues]

GitHubError(message, status, response) ==
    [NoError EXCEPT !.name = "GitHubError", !.message = message,
                    !.status = status, !.response = response]

\* a seeded fault: the payload is not handed to the base class
GitHubValidationErrorNoPayload(message, status, response) ==
    [GitHubError(message, status, NoPayload)
        EXCEPT !.name = "GitHubValidationError"]

GitHubValidationError(message, status, response) ==
    [GitHubError(message, status, response)
        EXCEPT !.name = "GitHubValidationError"]

GitHubResourceNotFoundError(resource) ==
    [GitHubError(<<"Resource not found: ">> \o resource, 404,
                 MessagePayload(resource \o <<" not found">>))
        EXCEPT !.name = "GitHubResourceNotFoundError"]

\* a default parameter value (message = "...") applies to undefined only
Default(m, d) == IF m = <<Undefined>> THEN d ELSE m

GitHubAuthenticationError(message) ==
    LET m == Default(message, <<"Authentication failed">>)
    IN  [GitHubError(m, 401, MessagePayload(m))
            EXCEPT !.name = "GitHubAuthenticationError"]

GitHubPermissionError(message) ==
    LET m == Default(message, <<"Insufficient permissions">>)
    IN  [GitHubError(m, 403, MessagePayload(m))
            EXCEPT !.name = "GitHubPermissionError"]

GitHubRateLimitError(message, resetAt) ==
    LET m == Default(message, <<"Rate limit exceeded">>)
    IN  [GitHubError(m, 429, [MessagePayload(m) EXCEPT !.reset_at = resetAt])
            EXCEPT !.name = "GitHubRateLimitError", !.resetAt = resetAt]

GitHubTimeoutError(message, timeoutMs) ==
    LET m == Default(message, <<"Request timed out">>)
    IN  [GitHubError(m, 408, [MessagePayload(m) EXCEPT !.timeout_ms = timeoutMs])
            EXCEPT !.name = "GitHubTimeoutError", !.timeoutMs = timeoutMs]

GitHubNetworkError(message, errorCode) ==
    LET m == Default(message, <<"Network error">>)
    IN  [GitHubError(m, 500, [MessagePayload(m) EXCEPT !.error_code = errorCode])
            EXCEPT !.name = "GitHubNetworkError", !.errorCode = errorCode]

GitHubConflictError(message) ==
    [GitHubError(message, 409, MessagePayload(message))
        EXCEPT !.name = "GitHubConflictError"]

GitHubErrorNames ==
    {"GitHubError", "GitHubValidationError", "GitHubResourceNotFoundError",
     "GitHubAuthenticationError", "GitHubPermissionError",
     "GitHubRateLimitError", "GitHubTimeoutError", "GitHubNetworkError",
     "GitHubConflictError"}

\* error instanceof GitHubError
isGitHubError(error) == error.name \in GitHubErrorNames

\* a native error thrown by fetch or by a body reader: name, message, cause.code
NativeError(name, msg, code) ==
    [NoError EXCEPT !.name = name, !.message = msg, !.causeCode = code]

\* x || d : undefined and the empty string are falsy
OrElse(m, d) == IF m = <<Undefined>> \/ m = <<>> THEN d ELSE m

createEnhancedGitHubError(error) ==
    IF error.name = "AbortError"
    THEN GitHubTimeoutError(<<"Request timed out: ">> \o error.message, 30000)
    ELSE IF error.causeCode # Undefined
    THEN GitHubNetworkError(<<"Network error: ">> \o error.message,
                            error.causeCode)
    ELSE GitHubError(error.message, 500, MessagePayload(error.message))

\* a seeded fault: the case for 409 is missing
createGitHubErrorNo409(status, response, t) ==
    CASE status = 401 -> GitHubAuthenticationError(response.message)
      [] status = 403 -> GitHubPermissionError(response.message)
      [] status = 404 ->
            GitHubResourceNotFoundError(OrElse(response.message, <<"Resource">>))
      [] status = 422 ->
            GitHubValidationError(
                OrElse(response.message, <<"Validation failed">>),
                status, response)
      [] status = 429 ->
            GitHubRateLimitError(
                response.message,
                IF response.reset_at > 0 THEN response.reset_at
                                         ELSE t + WINDOW_MS)
      [] OTHER ->
            GitHubError(OrElse(response.message, <<"GitHub API error">>),
                        status, response)

\* t is Date.now() at the call; a reset_at that is absent (or 0) is falsy
createGitHubError(status, response, t) ==
    CASE status = 401 -> GitHubAuthenticationError(response.message)
      [] status = 403 -> GitHubPermissionError(response.message)
      [] status = 404 ->
            GitHubResourceNotFoundError(OrElse(response.message, <<"Resource">>))
      [] status = 409 ->
            GitHubConflictError(OrElse(response.message, <<"Conflict occurred">>))
      [] status = 422 ->
            GitHubValidationError(
                OrElse(response.message, <<"Validation failed">>),
                status, response)
      [] status = 429 ->
            GitHubRateLimitError(
                response.message,
                IF response.reset_at > 0 THEN response.reset_at
                                         ELSE t + WINDOW_MS)
      [] OTHER ->
            GitHubError(OrElse(response.message, <<"GitHub API error">>),
                        status, response)

\* ---------------------------------------------------------------- validators

Ok(v) == [ok |-> TRUE, value |-> v, error |-> NoError]
Throw(e) == [ok |-> FALSE, value |-> <<>>, error |-> e]

\* a seeded fault: only the leading period is looked for
validateRepositoryNameLeadingDot(name) ==
    LET sanitized == toLowerCase(trim(name))
    IN  IF sanitized = <<>>
        THEN Throw(PlainError(<<"Repository name cannot be empty">>))
        ELSE IF ~repoCharsetTest(sanitized)
        THEN Throw(PlainError(<<"Repository name can only contain lowercase letters, numbers, hyphens, periods, and underscores">>))
        ELSE IF Head(sanitized) = "."
        THEN Throw(PlainError(<<"Repository name cannot start or end with a period">>))
        ELSE Ok(sanitized)

validateRepositoryName(name) ==
    LET sanitized == toLowerCase(trim(name))
    IN  IF sanitized = <<>>
        THEN Throw(PlainError(<<"Repository name cannot be empty">>))
        ELSE IF ~repoCharsetTest(sanitized)
        THEN Throw(PlainError(<<"Repository name can only contain lowercase letters, numbers, hyphens, periods, and underscores">>))
        ELSE IF Head(sanitized) = "." \/ sanitized[Len(sanitized)] = "."
        THEN Throw(PlainError(<<"Repository name cannot start or end with a period">>))
        ELSE Ok(sanitized)

validateOwnerName(owner) ==
    LET sanitized == toLowerCase(trim(owner))
    IN  IF sanitized = <<>>
        THEN Throw(PlainError(<<"Owner name cannot be empty">>))
        ELSE IF ~ownerRegexTest(sanitized)
        THEN Throw(PlainError(<<"Owner name must start with a letter or number and can contain up to 39 characters">>))
        ELSE Ok(sanitized)

\* ------------------------------------------------------------ argument values

Undef == [t |-> "undefined", s |-> <<>>, n |-> 0]
Str(s) == [t |-> "string", s |-> s, n |-> 0]
Num(n) == [t |-> "number", s |-> <<>>, n |-> n]
Bool(b) == [t |-> "boolean", s |-> <<>>, n |-> IF b THEN 1 ELSE 0]
\* an object of n string-valued keys (the inputs record)
Obj(n) == [t |-> "object", s |-> <<>>, n |-> n]

\* value.toString() and `${value}`
toString(v) ==
    CASE v.t = "number" -> <<ToString(v.n)>>
      [] v.t = "boolean" -> IF v.n = 1 THEN <<"true">> ELSE <<"false">>
      [] OTHER -> v.s

\* if (v): undefined, 0, "" and false are falsy
truthy(v) ==
    CASE v.t = "undefined" -> FALSE
      [] v.t = "number" -> v.n # 0
      [] v.t = "string" -> v.s # <<>>
      [] v.t = "boolean" -> v.n = 1
      [] OTHER -> TRUE

\* a seeded fault: the test is `if (value)`, which also skips 0 and ""
RECURSIVE appendParamsTruthy(_, _)
appendParamsTruthy(params, first) ==
    IF params = <<>> THEN <<>>
    ELSE LET k == Head(params)[1]
             v == Head(params)[2]
         IN  IF ~truthy(v)
             THEN appendParamsTruthy(Tail(params), first)
             ELSE <<IF first THEN "?" ELSE "&", k, "=">> \o toString(v)
                    \o appendParamsTruthy(Tail(params), FALSE)

\* buildUrl: params is a sequence of <<key, value>>; undefined values are skipped
RECURSIVE appendParams(_, _)
appendParams(params, first) ==
    IF params = <<>> THEN <<>>
    ELSE LET k == Head(params)[1]
             v == Head(params)[2]
         IN  IF v.t = "undefined"
             THEN appendParams(Tail(params), first)
             ELSE <<IF first THEN "?" ELSE "&", k, "=">> \o toString(v)
                    \o appendParams(Tail(params), FALSE)

buildUrl(baseUrl, params) == baseUrl \o appendParams(params, TRUE)

\* -------------------------------------------------- input shapes (zod objects)

AllFields ==
    {"owner", "repo", "workflowId", "runId", "ref", "inputs", "page", "perPage",
     "filter", "actor", "branch", "event", "status", "created",
     "excludePullRequests", "checkSuiteId"}

Required(f, types) == [f |-> f, types |-> types, optional |-> FALSE, enum |-> {}]
Optional(f, types) == [f |-> f, types |-> types, optional |-> TRUE, enum |-> {}]
OptionalEnum(f, enum) ==
    [f |-> f, types |-> {"string"}, optional |-> TRUE, enum |-> enum]

OwnerRepo == <<Required("owner", {"string"}), Required("repo", {"string"})>>
Paging == <<Optional("page", {"number"}), Optional("perPage", {"number"})>>

ListWorkflowsSchema == OwnerRepo \o Paging

GetWorkflowSchema ==
    OwnerRepo \o <<Required("workflowId", {"string", "number"})>>

GetWorkflowUsageSchema == GetWorkflowSchema

RunStatuses ==
    {<<"completed">>, <<"action_required">>, <<"cancelled">>, <<"failure">>,
     <<"neutral">>, <<"skipped">>, <<"stale">>, <<"success">>, <<"timed_out">>,
     <<"in_progress">>, <<"queued">>, <<"requested">>, <<"waiting">>,
     <<"pending">>}

ListWorkflowRunsSchema ==
    OwnerRepo \o
    <<Optional("workflowId", {"string", "number"}),
      Optional("actor", {"string"}), Optional("branch", {"string"}),
      Optional("event", {"string"}), OptionalEnum("status", RunStatuses),
      Optional("created", {"string"}),
      Optional("excludePullRequests", {"boolean"}),
      Optional("checkSuiteId", {"number"})>> \o Paging

GetWorkflowRunSchema == OwnerRepo \o <<Required("runId", {"number"})>>

GetWorkflowRunJobsSchema ==
    OwnerRepo \o
    <<Required("runId", {"number"}),
      OptionalEnum("filter", {<<"latest">>, <<"all">>})>> \o Paging

TriggerWorkflowSchema ==
    OwnerRepo \o
    <<Required("workflowId", {"string", "number"}),
      Required("ref", {"string"}), Optional("inputs", {"object"})>>

CancelWorkflowRunSchema == OwnerRepo \o <<Required("runId", {"number"})>>

RerunWorkflowSchema == CancelWorkflowRunSchema

\* one issue per key of the shape whose value is missing or of the wrong type
violates(spec, v) ==
    IF v.t = "undefined" THEN ~spec.optional
    ELSE \/ v.t \notin spec.types
         \/ spec.enum # {} /\ v.s \notin spec.enum

RECURSIVE zodIssues(_, _)
zodIssues(shape, args) ==
    IF shape = <<>> THEN <<>>
    ELSE (IF violates(Head(shape), args[Head(shape).f])
          THEN <<Head(shape).f>> ELSE <<>>)
         \o zodIssues(Tail(shape), args)

shapeKeys(shape) == {shape[i].f : i \in 1..Len(shape)}

\* Schema.parse(arguments): every issue is collected; unknown keys are stripped
\* a seeded fault: parsing stops at the first issue
parsedWithFirstIssue(issues, shape, args) ==
    IF issues # <<>> THEN Throw(ZodError(<<Head(issues)>>))
    ELSE Ok([f \in AllFields |->
                IF f \in shapeKeys(shape) THEN args[f] ELSE Undef])

parsedWith(issues, shape, args) ==
    IF issues # <<>> THEN Throw(ZodError(issues))
    ELSE Ok([f \in AllFields |->
                IF f \in shapeKeys(shape) THEN args[f] ELSE Undef])

zodParse(shape, args) == parsedWith(zodIssues(shape, args), shape, args)

\* ------------------------------------------------------------------ operations

NoBody == [keys |-> <<>>, ref |-> Undef, inputs |-> Undef]

NoPlan ==
    [ok |-> FALSE, error |-> NoError, url |-> <<>>, method |-> "GET",
     body |-> NoBody, schema |-> "none", ack |-> <<>>]

ApiRoot == <<"https://", "api.github.com", "/">>

\* `https://api.github.com/repos/${owner}/${repo}/actions/`
ActionsUrl(owner, repo) ==
    ApiRoot \o <<"repos/">> \o owner \o <<"/">> \o repo \o <<"/actions/">>

\* owner = validateOwnerName(owner); repo = validateRepositoryName(repo);
\* then the request the operation hands to githubRequest
\* a seeded fault: the repository validator's verdict is not looked at
validatedOwnerOnly(o, r, tail, params, method, body, schema, ack) ==
    IF ~o.ok THEN [NoPlan EXCEPT !.error = o.error]
    ELSE [ok |-> TRUE, error |-> NoError,
          url |-> buildUrl(ActionsUrl(o.value, r.value) \o tail, params),
          method |-> method, body |-> body, schema |-> schema, ack |-> ack]

validated(o, r, tail, params, method, body, schema, ack) ==
    IF ~o.ok THEN [NoPlan EXCEPT !.error = o.error]
    ELSE IF ~r.ok THEN [NoPlan EXCEPT !.error = r.error]
    ELSE [ok |-> TRUE, error |-> NoError,
          url |-> buildUrl(ActionsUrl(o.value, r.value) \o tail, params),
          method |-> method, body |-> body, schema |-> schema, ack |-> ack]

Operation(owner, repo, tail, params, method, body, schema, ack) ==
    validated(validateOwnerName(owner.s), validateRepositoryName(repo.s),
              tail, params, method, body, schema, ack)

listWorkflows(a) ==
    Operation(a.owner, a.repo, <<"workflows">>,
              <<<<"page", a.page>>, <<"per_page", a.perPage>>>>,
              "GET", NoBody, "Workflows", <<>>)

getWorkflow(a) ==
    Operation(a.owner, a.repo, <<"workflows/">> \o toString(a.workflowId),
              <<>>, "GET", NoBody, "Workflow", <<>>)

getWorkflowUsage(a) ==
    Operation(a.owner, a.repo,
              <<"workflows/">> \o toString(a.workflowId) \o <<"/timing">>,
              <<>>, "GET", NoBody, "WorkflowUsage", <<>>)

\* a seeded fault: the flag is serialized whenever it is set
listWorkflowRunsAnyFlag(a) ==
    Operation(a.owner, a.repo,
              IF truthy(a.workflowId)
              THEN <<"workflows/">> \o toString(a.workflowId) \o <<"/runs">>
              ELSE <<"runs">>,
              <<<<"actor", a.actor>>, <<"branch", a.branch>>,
                <<"event", a.event>>, <<"status", a.status>>,
                <<"created", a.created>>,
                <<"exclude_pull_requests",
                  IF a.excludePullRequests.t = "boolean"
                  THEN Str(toString(a.excludePullRequests)) ELSE Undef>>,
                <<"check_suite_id", a.checkSuiteId>>,
                <<"page", a.page>>, <<"per_page", a.perPage>>>>,
              "GET", NoBody, "WorkflowRuns", <<>>)

listWorkflowRuns(a) ==
    Operation(a.owner, a.repo,
              IF truthy(a.workflowId)
              THEN <<"workflows/">> \o toString(a.workflowId) \o <<"/runs">>
              ELSE <<"runs">>,
              <<<<"actor", a.actor>>, <<"branch", a.branch>>,
                <<"event", a.event>>, <<"status", a.status>>,
                <<"created", a.created>>,
                <<"exclude_pull_requests",
                  IF truthy(a.excludePullRequests) THEN Str(<<"true">>)
                                                   ELSE Undef>>,
                <<"check_suite_id", a.checkSuiteId>>,
                <<"page", a.page>>, <<"per_page", a.perPage>>>>,
              "GET", NoBody, "WorkflowRuns", <<>>)

getWorkflowRun(a) ==
    Operation(a.owner, a.repo, <<"runs/">> \o toString(a.runId),
              <<>>, "GET", NoBody, "WorkflowRun", <<>>)

getWorkflowRunJobs(a) ==
    Operation(a.owner, a.repo, <<"runs/">> \o toString(a.runId) \o <<"/jobs">>,
              <<<<"filter", a.filter>>, <<"page", a.page>>,
                <<"per_page", a.perPage>>>>,
              "GET", NoBody, "Jobs", <<>>)

\* a seeded fault: inputs is put into the body whenever it is given
triggerWorkflowAnyInputs(a) ==
    Operation(a.owner, a.repo,
              <<"workflows/">> \o toString(a.workflowId) \o <<"/dispatches">>,
              <<>>, "POST",
              IF a.inputs.t = "object"
              THEN [keys |-> <<"ref", "inputs">>, ref |-> a.ref,
                    inputs |-> a.inputs]
              ELSE [keys |-> <<"ref">>, ref |-> a.ref, inputs |-> Undef],
              "none",
              <<"Workflow ">> \o toString(a.workflowId)
                  \o <<" triggered on ">> \o toString(a.ref))

triggerWorkflow(a) ==
    Operation(a.owner, a.repo,
              <<"workflows/">> \o toString(a.workflowId) \o <<"/dispatches">>,
              <<>>, "POST",
              IF a.inputs.t = "object" /\ a.inputs.n > 0
              THEN [keys |-> <<"ref", "inputs">>, ref |-> a.ref,
                    inputs |-> a.inputs]
              ELSE [keys |-> <<"ref">>, ref |-> a.ref, inputs |-> Undef],
              "none",
              <<"Workflow ">> \o toString(a.workflowId)
                  \o <<" triggered on ">> \o toString(a.ref))

cancelWorkflowRun(a) ==
    Operation(a.owner, a.repo, <<"runs/">> \o toString(a.runId) \o <<"/cancel">>,
              <<>>, "POST", NoBody, "none",
              <<"Workflow run ">> \o toString(a.runId) \o <<" cancelled">>)

rerunWorkflowRun(a) ==
    Operation(a.owner, a.repo, <<"runs/">> \o toString(a.runId) \o <<"/rerun">>,
              <<>>, "POST", NoBody, "none",
              <<"Workflow run ">> \o toString(a.runId) \o <<" restarted">>)

ReadSchemas ==
    {"Workflows", "Workflow", "WorkflowUsage", "WorkflowRuns", "WorkflowRun",
     "Jobs"}

\* Schema.parse(response): a body conforms to the shape it was built for;
\* WorkflowUsageSchema has optional keys only and accepts every object
schemaAccepts(schema, body) ==
    IF schema = "WorkflowUsage" THEN body.shape \notin {"text", "empty"}
    ELSE body.shape = schema

\* a seeded fault: the body is returned without Schema.parse
operationReturnUnchecked(plan, body) ==
    IF plan.schema \in ReadSchemas THEN Ok(body)
    ELSE Ok([NoPayload EXCEPT !.shape = "ack", !.message = plan.ack])

\* what the operation does with the body githubRequest returned
operationReturn(plan, body) ==
    IF plan.schema \in ReadSchemas
    THEN IF schemaAccepts(plan.schema, body) THEN Ok(body)
         ELSE Throw(ZodError(<<"response">>))
    ELSE Ok([NoPayload EXCEPT !.shape = "ack", !.message = plan.ack])

\* ------------------------------------------------------------- request gateway

RECURSIVE startsWith(_, _)
startsWith(s, prefix) ==
    \/ prefix = <<>>
    \/ s # <<>> /\ Head(s) = Head(prefix) /\ startsWith(Tail(s), Tail(prefix))

\* Math.ceil(ms / 1000) for ms >= 0
ceilSeconds(ms) == (ms + 999) \div 1000

\* a seeded fault: the window is reset already at its reset time
windowResetEarly(count, reset, t) ==
    IF t >= reset THEN [count |-> 0, reset |-> t + WINDOW_MS]
                  ELSE [count |-> count, reset |-> reset]

\* lines 56-59: the window is reset when its reset time has passed
windowReset(count, reset, t) ==
    IF t > reset THEN [count |-> 0, reset |-> t + WINDOW_MS]
                 ELSE [count |-> count, reset |-> reset]

\* a seeded fault: the ceiling is compared with > instead of >=
quotaExceededOffByOne(count) == count > MAX_REQUESTS_PER_MINUTE

\* lines 61-65: the quota check
quotaExceeded(count) == count >= MAX_REQUESTS_PER_MINUTE

\* a seeded fault: the host name is compared without the slash that ends it
urlAllowedHostPrefix(url) ==
    /\ Len(url) >= 2
    /\ url[1] = "https://"
    /\ url[2] \in {"api.github.com", "api.github.com.evil.example"}

\* line 68: the trusted-host check
urlAllowed(url) == startsWith(url, ApiRoot)

\* line 84: options.timeout || DEFAULT_TIMEOUT
effectiveTimeout(timeout) == IF timeout # 0 THEN timeout ELSE DEFAULT_TIMEOUT

\* a seeded fault: the counter is incremented before the quota check, so a
\* refused call is counted too
githubRequestStartCountsRefused(url, timeout, count, reset, t) ==
    LET w == windowReset(count, reset, t)
    IN  IF quotaExceeded(w.count)
        THEN [count |-> w.count + 1, reset |-> w.reset, admitted |-> FALSE,
              fetched |-> FALSE,
              error |-> PlainError(
                  <<"Rate limit exceeded. Please try again in ",
                    ToString(ceilSeconds(w.reset - t)), " seconds.">>)]
        ELSE IF ~urlAllowed(url)
        THEN [count |-> w.count + 1, reset |-> w.reset, admitted |-> TRUE,
              fetched |-> FALSE,
              error |-> PlainError(
                  <<"Invalid GitHub API URL. Only https://api.github.com/ URLs are allowed.">>)]
        ELSE [count |-> w.count + 1, reset |-> w.reset, admitted |-> TRUE,
              fetched |-> TRUE, error |-> NoError]

\* githubRequest up to its first await: the new counter and reset time, whether
\* the call passed the quota check, whether fetch was called, the error thrown
githubRequestStart(url, timeout, count, reset, t) ==
    LET w == windowReset(count, reset, t)
    IN  IF quotaExceeded(w.count)
        THEN [count |-> w.count, reset |-> w.reset, admitted |-> FALSE,
              fetched |-> FALSE,
              error |-> PlainError(
                  <<"Rate limit exceeded. Please try again in ",
                    ToString(ceilSeconds(w.reset - t)), " seconds.">>)]
        ELSE IF ~urlAllowed(url)
        THEN [count |-> w.count + 1, reset |-> w.reset, admitted |-> TRUE,
              fetched |-> FALSE,
              error |-> PlainError(
                  <<"Invalid GitHub API URL. Only https://api.github.com/ URLs are allowed.">>)]
        ELSE [count |-> w.count + 1, reset |-> w.reset, admitted |-> TRUE,
              fetched |-> TRUE, error |-> NoError]

\* a seeded fault: the catch block wraps every error it did not classify,
\* the status-mapped ones included
githubRequestCatchWrapAll(error, timeout) ==
    IF error.name = "AbortError"
    THEN GitHubTimeoutError(
             <<"Request timeout after ", ToString(timeout), "ms">>, timeout)
    ELSE IF error.causeCode = "ENOTFOUND" \/ error.causeCode = "ECONNREFUSED"
    THEN GitHubNetworkError(<<"Unable to connect to GitHub API">>,
                            error.causeCode)
    ELSE createEnhancedGitHubError(error)

\* lines 103-115: the catch block
githubRequestCatch(error, timeout) ==
    IF error.name = "AbortError"
    THEN GitHubTimeoutError(
             <<"Request timeout after ", ToString(timeout), "ms">>, timeout)
    ELSE IF error.causeCode = "ENOTFOUND" \/ error.causeCode = "ECONNREFUSED"
    THEN GitHubNetworkError(<<"Unable to connect to GitHub API">>,
                            error.causeCode)
    ELSE IF ~isGitHubError(error)
    THEN createEnhancedGitHubError(error)
    ELSE error

\* lines 14-19: a failure of response.json() is rethrown as a new Error
parseResponseBodyCatch(error) ==
    NativeError("Error",
                <<"Error parsing JSON response: ", error.name, ": ">>
                    \o error.message,
                Undefined)

\* ------------------------------------------------------ tool-invocation handler

ToolNames ==
    <<"list_workflows", "get_workflow", "get_workflow_usage",
      "list_workflow_runs", "get_workflow_run", "get_workflow_run_jobs",
      "trigger_workflow", "cancel_workflow_run", "rerun_workflow">>

Tools == {ToolNames[i] : i \in 1..Len(ToolNames)}

ReadTools ==
    {"list_workflows", "get_workflow", "get_workflow_usage",
     "list_workflow_runs", "get_workflow_run", "get_workflow_run_jobs"}

\* the input shape each case of the switch parses the arguments against
toolShape(name) ==
    CASE name = "list_workflows" -> ListWorkflowsSchema
      [] name = "get_workflow" -> GetWorkflowSchema
      [] name = "get_workflow_usage" -> GetWorkflowUsageSchema
      [] name = "list_workflow_runs" -> ListWorkflowRunsSchema
      [] name = "get_workflow_run" -> GetWorkflowRunSchema
      [] name = "get_workflow_run_jobs" -> GetWorkflowRunJobsSchema
      [] name = "trigger_workflow" -> TriggerWorkflowSchema
      [] name = "cancel_workflow_run" -> CancelWorkflowRunSchema
      [] OTHER -> RerunWorkflowSchema

\* the operation each case of the switch calls
toolOperation(name, a) ==
    CASE name = "list_workflows" -> listWorkflows(a)
      [] name = "get_workflow" -> getWorkflow(a)
      [] name = "get_workflow_usage" -> getWorkflowUsage(a)
      [] name = "list_workflow_runs" -> listWorkflowRuns(a)
      [] name = "get_workflow_run" -> getWorkflowRun(a)
      [] name = "get_workflow_run_jobs" -> getWorkflowRunJobs(a)
      [] name = "trigger_workflow" -> triggerWorkflow(a)
      [] name = "cancel_workflow_run" -> cancelWorkflowRun(a)
      [] OTHER -> rerunWorkflowRun(a)

\* JSON.stringify of a body or of an acknowledgement
stringify(v) ==
    <<"{message:">> \o v.message
        \o <<",reset_at:", ToString(v.reset_at), ",shape:", v.shape, "}">>

\* an empty text body is the only falsy response
responseTruthy(response) == response.shape # "empty"

\* a seeded fault: every kind gets the generic text
formatGitHubErrorGeneric(error) == <<"GitHub API Error: ">> \o error.message

formatGitHubError(error) ==
    CASE error.name = "GitHubValidationError" ->
            <<"Validation Error: ">> \o error.message
                \o (IF responseTruthy(error.response)
                    THEN <<"\nDetails: ">> \o stringify(error.response)
                    ELSE <<>>)
      [] error.name = "GitHubResourceNotFoundError" ->
            <<"Not Found: ">> \o error.message
      [] error.name = "GitHubAuthenticationError" ->
            <<"Authentication Failed: ">> \o error.message
      [] error.name = "GitHubPermissionError" ->
            <<"Permission Denied: ">> \o error.message
      [] error.name = "GitHubRateLimitError" ->
            <<"Rate Limit Exceeded: ">> \o error.message
                \o <<"\nResets at: ", ToString(error.resetAt)>>
      [] error.name = "GitHubConflictError" ->
            <<"Conflict: ">> \o error.message
      [] error.name = "GitHubTimeoutError" ->
            <<"Timeout: ">> \o error.message
                \o <<"\nTimeout setting: ", ToString(error.timeoutMs), "ms">>
      [] error.name = "GitHubNetworkError" ->
            <<"Network Error: ">> \o error.message
                \o <<"\nError code: ", error.errorCode>>
      [] OTHER -> <<"GitHub API Error: ">> \o error.message

\* lines 243-251: the handler's catch block
callToolCatch(error) ==
    IF error.name = "ZodError"
    THEN PlainError(<<"Invalid input: ">> \o error.issues)
    ELSE IF isGitHubError(error)
    THEN PlainError(formatGitHubError(error))
    ELSE error

\* the operation was called and returned this plan (or threw in its validators)
operationCalled(plan) ==
    IF ~plan.ok
    THEN [stage |-> "operation", plan |-> plan, error |-> plan.error]
    ELSE [stage |-> "gateway", plan |-> plan, error |-> NoError]

\* a case of the switch: the arguments were parsed against the tool's shape
dispatched(name, parsed) ==
    IF ~parsed.ok
    THEN [stage |-> "handler", plan |-> NoPlan, error |-> parsed.error]
    ELSE operationCalled(toolOperation(name, parsed.value))

\* lines 118-242, up to the call of githubRequest: which stage ended the
\* synchronous part ("handler": before any operation was called; "operation":
\* in the operation's validators; "gateway": githubRequest is called)
callToolStart(hasArgs, name, args) ==
    IF ~hasArgs
    THEN [stage |-> "handler", plan |-> NoPlan,
          error |-> PlainError(<<"Arguments are required">>)]
    ELSE IF name \notin Tools
    THEN [stage |-> "handler", plan |-> NoPlan,
          error |-> PlainError(<<"Unknown tool: ", name>>)]
    ELSE dispatched(name, zodParse(toolShape(name), args))

\* ---------------------------------------------------------------- invocations

NoOutcome == [kind |-> "none", value |-> NoPayload, error |-> NoError]
Returned(v) == [kind |-> "return", value |-> v, error |-> NoError]
Thrown(e) == [kind |-> "throw", value |-> NoPayload, error |-> e]

NoHost == [kind |-> "none", text |-> <<>>, error |-> NoError]

\* an idle task
Idle ==
    [pc |-> "idle", via |-> "none", tool |-> "", hasArgs |-> FALSE,
     args |-> <<>>, plan |-> NoPlan,
     timeout |-> 0, timerArmed |-> FALSE, deadline |-> 0,
     status |-> 0, json |-> FALSE, body |-> NoPayload, aborted |-> FALSE,
     caught |-> NoError,
     opCalls |-> 0, calls |-> 0, fetches |-> 0,
     gw |-> NoOutcome, op |-> NoOutcome, host |-> NoHost]

\* what the operation makes of githubRequest's outcome
asOutcome(r) == IF r.ok THEN Returned(r.value) ELSE Thrown(r.error)

operationOutcome(plan, gw) ==
    IF gw.kind = "throw" THEN gw
    ELSE asOutcome(operationReturn(plan, gw.value))

\* what the handler hands to the host: the serialized result, or the error
\* its catch block throws
hostOutcome(op) ==
    IF op.kind = "throw"
    THEN [kind |-> "throw", text |-> <<>>, error |-> callToolCatch(op.error)]
    ELSE [kind |-> "return", text |-> stringify(op.value), error |-> NoError]

\* githubRequest ends with outcome gw (finally: clearTimeout), and its callers
\* run to their end
settled(r, gw, op) ==
    [r EXCEPT !.pc = "done", !.timerArmed = FALSE, !.gw = gw, !.op = op,
              !.host = IF r.via = "tool" THEN hostOutcome(op) ELSE NoHost]

\* a seeded fault: a failed call is dispatched a second time
settleRetry(r, gw) ==
    IF gw.kind = "throw" /\ r.fetches = 1
    THEN [r EXCEPT !.pc = "fetching", !.fetches = 2, !.caught = NoError]
    ELSE settled(r, gw,
                 IF r.via = "tool" THEN operationOutcome(r.plan, gw)
                                   ELSE NoOutcome)

settle(r, gw) ==
    settled(r, gw,
            IF r.via = "tool" THEN operationOutcome(r.plan, gw) ELSE NoOutcome)

\* the catch block of githubRequest catches `error`
catch(r, error) ==
    settle([r EXCEPT !.caught = error],
           Thrown(githubRequestCatch(error, r.timeout)))

\* githubRequest(url, {timeout}) called by a task, up to its first await:
\* the new counter and reset time, and the task's record
started(called, g, timeout, t) ==
    [count |-> g.count, reset |-> g.reset,
     rec |-> IF g.fetched
             THEN [called EXCEPT
                      !.pc = "fetching", !.fetches = 1,
                      !.timeout = effectiveTimeout(timeout),
                      !.timerArmed = TRUE,
                      !.deadline = t + effectiveTimeout(timeout)]
             ELSE settle(called, Thrown(g.error))]

request(r, via, tool, plan, timeout, count, reset, t) ==
    started([r EXCEPT !.via = via, !.tool = tool, !.plan = plan,
                      !.opCalls = IF via = "tool" THEN 1 ELSE 0,
                      !.calls = 1],
            githubRequestStart(plan.url, timeout, count, reset, t),
            timeout, t)

\* the handler from its entry to its first await (or to its end)
entered(r, name, st, count, reset, t) ==
    IF st.stage = "gateway"
    THEN request(r, "tool", name, st.plan, 0, count, reset, t)
    ELSE [count |-> count, reset |-> reset,
          rec |-> [r EXCEPT
              !.pc = "done", !.via = "tool", !.tool = name,
              !.opCalls = IF st.stage = "operation" THEN 1 ELSE 0,
              !.op = IF st.stage = "operation" THEN Thrown(st.error)
                                               ELSE NoOutcome,
              !.host = [kind |-> "throw", text |-> <<>>,
                        error |-> callToolCatch(st.error)]]]

callTool(r, hasArgs, name, args, count, reset, t) ==
    entered([r EXCEPT !.hasArgs = hasArgs,
                      !.args = IF hasArgs THEN args ELSE <<>>],
            name, callToolStart(hasArgs, name, args), count, reset, t)

\* ---------------------------------------------------------------------- inputs

OwnerOcto == <<" ", "O", "c", "t", "o">>
OwnerBad == <<"O", "c", " ", "T", "o">>
RepoDemo == <<"a", "-", "b", ".", "c">>
RepoBad == <<".", "a">>

BaseArgs == [f \in AllFields |-> Undef]

GoodArgs ==
    [BaseArgs EXCEPT !.owner = Str(OwnerOcto), !.repo = Str(RepoDemo),
                     !.workflowId = Str(<<"ci.yml">>), !.runId = Num(7),
                     !.ref = Str(<<"main">>)]

ArgSamples ==
    {GoodArgs,
     [GoodArgs EXCEPT !.owner = Str(OwnerBad)],
     [GoodArgs EXCEPT !.repo = Str(RepoBad)],
     [GoodArgs EXCEPT !.owner = Num(1), !.repo = Undef],
     [GoodArgs EXCEPT !.workflowId = Undef, !.runId = Str(<<"7">>),
                      !.ref = Undef],
     BaseArgs}

NameSamples == Tools \cup {"delete_workflow"}

UrlSamples ==
    {ApiRoot \o <<"rate_limit">>,
     <<"https://", "api.github.com.evil.example", "/">>,
     <<"http://", "api.github.com", "/">>,
     <<"https://", "api.github.com">>}

TimeoutSamples == {0, 60000}

StatusSamples == {200, 401, 403, 404, 409, 422, 429, 503}

CauseSamples == {Undefined, "ENOTFOUND", "ECONNREFUSED", "ECONNRESET"}

ResetAtSamples == {Absent, 5000}

isOk(status) == status >= 200 /\ status <= 299

\* the bodies a response with this content type and status may carry, for a
\* caller expecting `schema`
BodySamples(json, status, schema) ==
    IF ~json
    THEN {[NoPayload EXCEPT !.shape = "text"], [NoPayload EXCEPT !.shape = "empty"]}
    ELSE IF isOk(status)
    THEN {[NoPayload EXCEPT !.shape = sh] :
            sh \in {"object"} \cup ({schema} \cap ReadSchemas)}
    ELSE {[NoPayload EXCEPT !.shape = "object", !.message = m, !.reset_at = ra] :
            m \in {<<Undefined>>, <<"upstream says no">>},
            ra \in IF status = 429 THEN ResetAtSamples ELSE {Absent}}

\* --------------------------------------------------------------------- actions

Init ==
    /\ requestCount = 0
    /\ now = 0
    /\ requestCountResetTime = now + WINDOW_MS
    /\ inv = [p \in Procs |-> Idle]
    /\ fnIn = <<>>
    /\ fnOut = <<>>

\* task p takes the step computed as q
Becomes(p, q) ==
    /\ requestCount' = q.count
    /\ requestCountResetTime' = q.reset
    /\ inv' = [inv EXCEPT ![p] = q.rec]

\* the host invokes a tool
CallTool(p, hasArgs, name, args) ==
    /\ inv[p].pc = "idle"
    /\ Becomes(p, callTool(inv[p], hasArgs, name, args, requestCount,
                requestCountResetTime, now))
    /\ UNCHANGED <<now, fnIn, fnOut>>

\* a caller of the exported githubRequest
DirectRequest(p, url, timeout) ==
    /\ inv[p].pc = "idle"
    /\ Becomes(p, request(inv[p], "direct", "", [NoPlan EXCEPT !.url = url],
               timeout, requestCount, requestCountResetTime, now))
    /\ UNCHANGED <<now, fnIn, fnOut>>

\* await fetch(...) resolves with a response
FetchResolve(p, status, json) ==
    /\ inv[p].pc = "fetching"
    /\ inv' = [inv EXCEPT ![p] = [@ EXCEPT !.pc = "parsing", !.status = status,
                                           !.json = json]]
    /\ UNCHANGED <<requestCount, requestCountResetTime, now, fnIn, fnOut>>

\* await fetch(...) rejects with a transport error
FetchReject(p, code) ==
    /\ inv[p].pc = "fetching"
    /\ inv' = [inv EXCEPT ![p] =
            catch(@, NativeError("TypeError", <<"fetch failed">>, code))]
    /\ UNCHANGED <<requestCount, requestCountResetTime, now, fnIn, fnOut>>

\* await parseResponseBody(response) resolves with the body
BodyParsed(p, body) ==
    /\ inv[p].pc = "parsing"
    /\ body \in BodySamples(inv[p].json, inv[p].status, inv[p].plan.schema)
    /\ inv' = [inv EXCEPT ![p] =
            IF isOk(@.status)
            THEN settle([@ EXCEPT !.body = body], Returned(body))
            ELSE catch([@ EXCEPT !.body = body],
                       createGitHubError(@.status, body, now))]
    /\ UNCHANGED <<requestCount, requestCountResetTime, now, fnIn, fnOut>>

\* response.json() fails on a body that is not JSON
BodyInvalid(p) ==
    /\ inv[p].pc = "parsing"
    /\ inv[p].json
    /\ inv' = [inv EXCEPT ![p] =
            catch(@, parseResponseBodyCatch(
                NativeError("SyntaxError", <<"Unexpected token">>, Undefined)))]
    /\ UNCHANGED <<requestCount, requestCountResetTime, now, fnIn, fnOut>>

\* what the pending await throws when the controller aborts
abortOutcome(r) ==
    LET abort == NativeError("AbortError", <<"This operation was aborted">>,
                             Undefined)
    IN  IF r.pc = "parsing" /\ r.json
        THEN parseResponseBodyCatch(abort)
        ELSE abort

\* the timer of line 86 fires: controller.abort()
TimeoutFires(p) ==
    /\ inv[p].pc \in {"fetching", "parsing"}
    /\ inv[p].timerArmed
    /\ now >= inv[p].deadline
    /\ inv' = [inv EXCEPT ![p] =
            catch([@ EXCEPT !.aborted = TRUE], abortOutcome(@))]
    /\ UNCHANGED <<requestCount, requestCountResetTime, now, fnIn, fnOut>>

\* the caller has taken the result; the task is free again
Return(p) ==
    /\ inv[p].pc = "done"
    /\ inv' = [inv EXCEPT ![p] = Idle]
    /\ UNCHANGED <<requestCount, requestCountResetTime, now, fnIn, fnOut>>

armedDeadlines == {inv[p].deadline : p \in {q \in Procs : inv[q].timerArmed}}

\* the instants at which something changes: the window's reset time, the
\* first instant after it, and the deadlines of the running timers
Instants ==
    {requestCountResetTime, requestCountResetTime + 1} \cup armedDeadlines

\* time passes, up to the next deadline of a running timer
Tick ==
    /\ \E t \in Instants :
          /\ t > now
          /\ t <= MaxTime
          /\ \A d \in armedDeadlines : t <= d
          /\ now' = t
    /\ UNCHANGED <<requestCount, requestCountResetTime, inv, fnIn, fnOut>>

Step(p) ==
    \/ \E hasArgs \in BOOLEAN, name \in NameSamples, args \in ArgSamples :
          CallTool(p, hasArgs, name, args)
    \/ \E url \in UrlSamples, timeout \in TimeoutSamples :
          DirectRequest(p, url, timeout)
    \/ \E status \in StatusSamples, json \in BOOLEAN : FetchResolve(p, status, json)
    \/ \E code \in CauseSamples : FetchReject(p, code)
    \/ \E body \in BodySamples(inv[p].json, inv[p].status, inv[p].plan.schema) :
          BodyParsed(p, body)
    \/ BodyInvalid(p)
    \/ TimeoutFires(p)
    \/ Return(p)

\* the host's sequential caller: one invocation at a time
Next == Tick \/ Step(1)

Spec == Init /\ [][Next]_vars

\* ------------------------------------------- the status mapper on its own

ErrorStatuses == 300..599

ErrorBodies ==
    {[NoPayload EXCEPT !.shape = "text"]} \cup
    {[NoPayload EXCEPT !.shape = "object", !.message = m, !.reset_at = ra] :
        m \in {<<Undefined>>, <<>>, <<"upstream says no">>},
        ra \in ResetAtSamples}

InitErr ==
    /\ requestCount = 0
    /\ now \in {0, 1000, MaxTime}
    /\ requestCountResetTime = WINDOW_MS
    /\ inv = [p \in Procs |-> Idle]
    /\ fnIn \in [status : ErrorStatuses, body : ErrorBodies]
    /\ fnOut = NoError

ApplyCreateGitHubError ==
    /\ fnOut = NoError
    /\ fnOut' = createGitHubError(fnIn.status, fnIn.body, now)
    /\ UNCHANGED <<requestCount, requestCountResetTime, now, inv, fnIn>>

NextErr == ApplyCreateGitHubError

SpecErr == InitErr /\ [][NextErr]_vars

\* ------------------------------------------------ the quota window on its own

\* the call got past the quota check of lines 61-64
admitted(r) ==
    /\ r.calls = 1
    /\ ~(/\ r.gw.kind = "throw"
         /\ r.gw.error.name = "Error"
         /\ Head(r.gw.error.message) = "Rate limit exceeded. Please try again in ")

\* the admissions of the 60 s that end at t, as <<time, number>> pairs, after
\* one more admission at t
logged(log, t) ==
    LET kept == SelectSeq(log, LAMBDA e : t - e[1] < 60000)
    IN  IF kept # <<>> /\ kept[Len(kept)][1] = t
        THEN [kept EXCEPT ![Len(kept)] = <<t, @[2] + 1>>]
        ELSE Append(kept, <<t, 1>>)

\* the step of task p is counted: fnIn is the number of calls admitted since
\* the counter was last reset
Counted(p) ==
    fnIn' = (IF requestCountResetTime' # requestCountResetTime THEN 0 ELSE fnIn)
            + (IF admitted(inv'[p]) THEN 1 ELSE 0)

QuotaUrls == {ApiRoot \o <<"rate_limit">>, <<"http://", "api.github.com", "/">>}

InitQuota ==
    /\ requestCount = 0
    /\ now = 0
    /\ requestCountResetTime = now + WINDOW_MS
    /\ inv = [p \in Procs |-> Idle]
    /\ fnIn = 0
    /\ fnOut = <<>>

\* a caller of the exported githubRequest; the admission is logged
GatewayCall(p, url, timeout) ==
    /\ inv[p].pc = "idle"
    /\ Becomes(p, request(inv[p], "direct", "", [NoPlan EXCEPT !.url = url],
               timeout, requestCount, requestCountResetTime, now))
    /\ Counted(p)
    /\ fnOut' = IF admitted(inv'[p]) THEN logged(fnOut, now) ELSE fnOut
    /\ UNCHANGED now

NextQuota ==
    \/ Tick
    \/ \E url \in QuotaUrls : GatewayCall(1, url, 60000)
    \/ FetchReject(1, "ECONNRESET")
    \/ Return(1)

SpecQuota == InitQuota /\ [][NextQuota]_vars

\* ------------------------------------------------- invocations side by side

ConcArgSamples == {GoodArgs, [GoodArgs EXCEPT !.owner = Str(OwnerBad)]}

\* the host invokes a tool while other invocations may be suspended
ToolCall(p, name, args) ==
    /\ inv[p].pc = "idle"
    /\ Becomes(p, callTool(inv[p], TRUE, name, args, requestCount,
                requestCountResetTime, now))
    /\ Counted(p)
    /\ UNCHANGED <<now, fnOut>>

StepConc(p) ==
    \/ \E args \in ConcArgSamples : ToolCall(p, "trigger_workflow", args)
    \/ FetchResolve(p, 200, TRUE)
    \/ \E body \in BodySamples(inv[p].json, inv[p].status, inv[p].plan.schema) :
          BodyParsed(p, body)
    \/ TimeoutFires(p)
    \/ Return(p)

NextConc == Tick \/ \E p \in Procs : StepConc(p)

SpecConc == InitQuota /\ [][NextConc]_vars

\* ------------------------------------------------- the action operations

AckTools == {"trigger_workflow", "cancel_workflow_run", "rerun_workflow"}

AckArgSamples ==
    {GoodArgs,
     [GoodArgs EXCEPT !.inputs = Obj(0)],
     [GoodArgs EXCEPT !.inputs = Obj(2)],
     [GoodArgs EXCEPT !.workflowId = Num(42), !.inputs = Obj(1)],
     [GoodArgs EXCEPT !.repo = Str(RepoBad), !.inputs = Obj(1)]}

AckStatusSamples == {200, 204, 404}

NextAck ==
    \/ Tick
    \/ \E name \in AckTools, args \in AckArgSamples : CallTool(1, TRUE, name, args)
    \/ \E status \in AckStatusSamples, json \in BOOLEAN :
          FetchResolve(1, status, json)
    \/ FetchReject(1, "ECONNREFUSED")
    \/ \E body \in BodySamples(inv[1].json, inv[1].status, inv[1].plan.schema) :
          BodyParsed(1, body)
    \/ BodyInvalid(1)
    \/ TimeoutFires(1)
    \/ Return(1)

SpecAck == Init /\ [][NextAck]_vars

\* ------------------------------------------------ the functions on their own

\* every string of at most n characters of the alphabet
Strings(alphabet, n) == UNION {[1..k -> alphabet] : k \in 0..n}

\* the character c, n times
Run(c, n) == [i \in 1..n |-> c]

OwnerSamples ==
    Strings({"a", "T", "9", "-", " ", "_"}, MaxLen) \cup
    {Run("a", OWNER_MAX_TAIL + 1), Run("a", OWNER_MAX_TAIL + 2),
     <<" ">> \o Run("T", OWNER_MAX_TAIL + 1) \o <<" ">>,
     <<"9", "-">> \o Run("a", OWNER_MAX_TAIL - 1),
     Run("a", OWNER_MAX_TAIL) \o <<"-">>,
     <<"a", "-">> \o Run("a", OWNER_MAX_TAIL)}

RepoSamples == Strings({"a", "T", ".", "-", "_", " ", "!"}, MaxLen)

ParamSamples ==
    {<<<<"a", va>>, <<"b", vb>>, <<"c", vc>>>> :
        va \in {Undef, Num(0), Num(1), Str(<<"x">>), Str(<<>>)},
        vb \in {Undef, Num(0), Num(1), Str(<<"x">>), Str(<<>>)},
        vc \in {Undef, Num(0), Num(1), Str(<<"x">>), Str(<<>>)}}

RunsArgSamples ==
    {[GoodArgs EXCEPT !.workflowId = w, !.excludePullRequests = x,
                      !.status = st, !.page = pg] :
        w \in {Undef, Num(0), Num(5), Str(<<"ci.yml">>)},
        x \in {Undef, Bool(TRUE), Bool(FALSE)},
        st \in {Undef, Str(<<"completed">>)},
        pg \in {Undef, Num(2)}}

NoInput == [fn |-> "none", s |-> <<>>, params |-> <<>>, args |-> BaseArgs]

NoResult ==
    [done |-> FALSE, twice |-> FALSE, r |-> Throw(NoError),
     again |-> Throw(NoError), url |-> <<>>]

InitFn ==
    /\ requestCount = 0
    /\ now = 0
    /\ requestCountResetTime = WINDOW_MS
    /\ inv = [p \in Procs |-> Idle]
    /\ fnIn \in
          {[NoInput EXCEPT !.fn = "validateOwnerName", !.s = s] :
              s \in OwnerSamples}
          \cup {[NoInput EXCEPT !.fn = "validateRepositoryName", !.s = s] :
                  s \in RepoSamples}
          \cup {[NoInput EXCEPT !.fn = "buildUrl", !.params = ps] :
                  ps \in ParamSamples}
          \cup {[NoInput EXCEPT !.fn = "listWorkflowRuns", !.args = a] :
                  a \in RunsArgSamples}
    /\ fnOut = NoResult

ApplyValidateOwnerName ==
    /\ fnIn.fn = "validateOwnerName"
    /\ ~fnOut.done
    /\ fnOut' = [fnOut EXCEPT !.done = TRUE, !.r = validateOwnerName(fnIn.s)]
    /\ UNCHANGED <<requestCount, requestCountResetTime, now, inv, fnIn>>

\* the validator is applied to the name, and then to what it returned
ApplyValidateRepositoryName ==
    /\ fnIn.fn = "validateRepositoryName"
    /\ IF ~fnOut.done
       THEN fnOut' = [fnOut EXCEPT !.done = TRUE,
                                   !.r = validateRepositoryName(fnIn.s)]
       ELSE /\ fnOut.r.ok
            /\ ~fnOut.twice
            /\ fnOut' = [fnOut EXCEPT
                            !.twice = TRUE,
                            !.again = validateRepositoryName(fnOut.r.value)]
    /\ UNCHANGED <<requestCount, requestCountResetTime, now, inv, fnIn>>

ApplyBuildUrl ==
    /\ fnIn.fn = "buildUrl"
    /\ ~fnOut.done
    /\ fnOut' = [fnOut EXCEPT
                    !.done = TRUE,
                    !.url = buildUrl(ApiRoot \o <<"rate_limit">>, fnIn.params)]
    /\ UNCHANGED <<requestCount, requestCountResetTime, now, inv, fnIn>>

\* the case list_workflow_runs of the handler, up to the call of githubRequest
ApplyListWorkflowRuns ==
    /\ fnIn.fn = "listWorkflowRuns"
    /\ ~fnOut.done
    /\ fnOut' = [fnOut EXCEPT
                    !.done = TRUE,
                    !.url = callToolStart(TRUE, "list_workflow_runs",
                                          fnIn.args).plan.url]
    /\ UNCHANGED <<requestCount, requestCountResetTime, now, inv, fnIn>>

NextFn ==
    \/ ApplyValidateOwnerName
    \/ ApplyValidateRepositoryName
    \/ ApplyBuildUrl
    \/ ApplyListWorkflowRuns

SpecFn == InitFn /\ [][NextFn]_vars

\* ====================================================================== claims

RateLimitText == "Rate limit exceeded. Please try again in "
InvalidUrlText ==
    "Invalid GitHub API URL. Only https://api.github.com/ URLs are allowed."

IsRateLimitError(e) ==
    e.name = "Error" /\ Len(e.message) = 3 /\ e.message[1] = RateLimitText

IsInvalidUrlError(e) == e.name = "Error" /\ e.message = <<InvalidUrlText>>

\* task p calls githubRequest in this step
Calls(p) == inv[p].pc = "idle" /\ inv'[p].calls = 1

OnTrustedHost(url) ==
    Len(url) >= 3 /\ SubSeq(url, 1, 3) = <<"https://", "api.github.com", "/">>

\* C1: once 60 calls have passed the quota check in the current window, every
\* call made up to the window's reset time fails with the local rate-limit
\* error (quoting the seconds left), performs no fetch and leaves the counter;
\* below 60 a call is counted; the first call after the reset time finds the
\* counter reset to zero, is admitted and leaves the counter at 1.
C1_QuotaWindow ==
    [][\A p \in Procs : Calls(p) =>
        /\ (now <= requestCountResetTime /\ requestCount >= 60) =>
              /\ inv'[p].pc = "done"
              /\ inv'[p].gw.kind = "throw"
              /\ IsRateLimitError(inv'[p].gw.error)
              /\ inv'[p].gw.error.message[2] =
                    ToString((requestCountResetTime - now + 999) \div 1000)
              /\ inv'[p].fetches = 0
              /\ requestCount' = requestCount
              /\ requestCountResetTime' = requestCountResetTime
        /\ (now <= requestCountResetTime /\ requestCount < 60) =>
              /\ ~IsRateLimitError(inv'[p].gw.error)
              /\ requestCount' = requestCount + 1
              /\ requestCountResetTime' = requestCountResetTime
        /\ now > requestCountResetTime =>
              /\ ~IsRateLimitError(inv'[p].gw.error)
              /\ requestCount' = 1
              /\ requestCountResetTime' = now + 60000]_vars

\* C1 witness: a call was refused with the quota used up, without a fetch
C1_Witness ==
    /\ requestCount = 60
    /\ inv[1].pc = "done"
    /\ inv[1].calls = 1
    /\ inv[1].fetches = 0
    /\ IsRateLimitError(inv[1].gw.error)

\* C2 as stated: in every state of the quota counter a githubRequest call with
\* a URL off the trusted host fails with the invalid-URL error, without a fetch
C2_Original ==
    \A p \in Procs :
        (inv[p].calls = 1 /\ ~OnTrustedHost(inv[p].plan.url)) =>
            /\ inv[p].gw.kind = "throw"
            /\ IsInvalidUrlError(inv[p].gw.error)
            /\ inv[p].fetches = 0

\* C2 amended: a githubRequest call with a URL off the trusted host performs no
\* fetch and fails locally: with the local rate-limit error when the quota of
\* the window is used up (the quota check comes first), and otherwise with the
\* invalid-URL error, after having been counted against the quota.
C2_UntrustedUrl ==
    [][\A p \in Procs :
        (Calls(p) /\ ~OnTrustedHost(inv'[p].plan.url)) =>
            /\ inv'[p].pc = "done"
            /\ inv'[p].fetches = 0
            /\ inv'[p].gw.kind = "throw"
            /\ IF now <= requestCountResetTime /\ requestCount >= 60
               THEN /\ IsRateLimitError(inv'[p].gw.error)
                    /\ requestCount' = requestCount
               ELSE /\ IsInvalidUrlError(inv'[p].gw.error)
                    /\ requestCount' =
                          (IF now > requestCountResetTime THEN 0
                                                          ELSE requestCount) + 1]_vars

\* C2 witness: a call with an untrusted URL was refused by the quota check
C2_Witness ==
    /\ inv[1].pc = "done"
    /\ inv[1].calls = 1
    /\ inv[1].plan.url = <<"https://", "api.github.com.evil.example", "/">>
    /\ inv[1].fetches = 0
    /\ IsRateLimitError(inv[1].gw.error)
    /\ requestCount = 60

KindOfStatus(status) ==
    CASE status = 401 -> "GitHubAuthenticationError"
      [] status = 403 -> "GitHubPermissionError"
      [] status = 404 -> "GitHubResourceNotFoundError"
      [] status = 409 -> "GitHubConflictError"
      [] status = 422 -> "GitHubValidationError"
      [] status = 429 -> "GitHubRateLimitError"
      [] OTHER -> "GitHubError"

Is2xx(status) == status \in 200..299

C5_TimeoutKind ==
    \A p \in Procs :
        /\ inv[p].aborted =>
              /\ inv[p].gw.kind = "throw"
              /\ inv[p].gw.error.name = "GitHubTimeoutError"
              /\ inv[p].gw.error.status = 408
              /\ inv[p].gw.error.timeoutMs = inv[p].timeout
        /\ inv[p].pc \in {"idle", "done"} => ~inv[p].timerArmed

\* C6: no retries: an invocation calls its operation at most once, the
\* operation calls githubRequest at most once, githubRequest calls fetch at
\* most once; a failure ends the call (none is in flight after it) and is what
\* the operation throws and the handler reports.
C6_NoRetry ==
    \A p \in Procs :
        /\ inv[p].opCalls <= 1
        /\ inv[p].calls <= 1
        /\ inv[p].fetches <= inv[p].calls
        /\ inv[p].pc \in {"fetching", "parsing"} =>
              inv[p].gw.kind = "none" /\ inv[p].fetches = 1
        /\ (inv[p].pc = "done" /\ inv[p].via = "tool"
                /\ inv[p].gw.kind = "throw") =>
              /\ inv[p].op = inv[p].gw
              /\ inv[p].host.kind = "throw"

\* C6 witness: an invocation failed after its one fetch
C6_Witness ==
    /\ inv[1].pc = "done"
    /\ inv[1].via = "tool"
    /\ inv[1].opCalls = 1
    /\ inv[1].calls = 1
    /\ inv[1].fetches = 1
    /\ inv[1].gw.kind = "throw"
    /\ inv[1].gw.error.name = "GitHubTimeoutError"
    /\ inv[1].host.kind = "throw"

\* task p enters the tool-invocation handler in this step
Enters(p) == inv[p].pc = "idle" /\ inv'[p].via = "tool"

ValidationTexts ==
    {"Owner name cannot be empty",
     "Owner name must start with a letter or number and can contain up to 39 characters",
     "Repository name cannot be empty",
     "Repository name can only contain lowercase letters, numbers, hyphens, periods, and underscores",
     "Repository name cannot start or end with a period"}

\* C7: for each of the nine operations, an owner or repo its validator rejects
\* makes the invocation fail with the validator's error before githubRequest
\* is called: no fetch, and the quota counter and reset time are unchanged.
C7_ValidationFirst ==
    [][\A p \in Procs :
        (/\ Enters(p)
         /\ inv'[p].hasArgs
         /\ inv'[p].tool \in Tools
         /\ inv'[p].args.owner.t = "string"
         /\ inv'[p].args.repo.t = "string"
         /\ inv'[p].args.owner.s = OwnerBad \/ inv'[p].args.repo.s = RepoBad) =>
            /\ inv'[p].pc = "done"
            /\ inv'[p].opCalls = 1
            /\ inv'[p].op.kind = "throw"
            /\ inv'[p].op.error.name = "Error"
            /\ Len(inv'[p].op.error.message) = 1
            /\ inv'[p].op.error.message[1] \in ValidationTexts
            /\ inv'[p].host.kind = "throw"
            /\ inv'[p].host.error = inv'[p].op.error
            /\ inv'[p].calls = 0
            /\ inv'[p].fetches = 0
            /\ requestCount' = requestCount
            /\ requestCountResetTime' = requestCountResetTime]_vars

\* C7 witness: get_workflow_run_jobs refused an owner with uppercase and a
\* space, with part of the quota already used
C7_Witness ==
    /\ inv[1].pc = "done"
    /\ inv[1].tool = "get_workflow_run_jobs"
    /\ inv[1].hasArgs
    /\ inv[1].args.owner = Str(OwnerBad)
    /\ inv[1].op.kind = "throw"
    /\ inv[1].calls = 0
    /\ requestCount = 2

ExpectedShape(tool) ==
    CASE tool = "list_workflows" -> "Workflows"
      [] tool = "get_workflow" -> "Workflow"
      [] tool = "get_workflow_usage" -> "WorkflowUsage"
      [] tool = "list_workflow_runs" -> "WorkflowRuns"
      [] tool = "get_workflow_run" -> "WorkflowRun"
      [] OTHER -> "Jobs"

\* the body has the shape the tool declares (the usage shape has no required
\* key: every object has it)
Conforms(tool, body) ==
    IF tool = "get_workflow_usage"
    THEN body.shape \notin {"text", "empty", "none"}
    ELSE body.shape = ExpectedShape(tool)

\* C8: what a read operation returns has the operation's declared shape; a 2xx
\* body without it is not returned: the operation throws and the host gets an
\* error and no text.
C8_ShapeValidated ==
    \A p \in Procs :
        (inv[p].pc = "done" /\ inv[p].via = "tool"
            /\ inv[p].tool \in ReadTools) =>
            /\ inv[p].op.kind = "return" => Conforms(inv[p].tool, inv[p].op.value)
            /\ inv[p].host.kind = "return" => inv[p].op.kind = "return"
            /\ (inv[p].gw.kind = "return"
                    /\ ~Conforms(inv[p].tool, inv[p].gw.value)) =>
                  /\ inv[p].op.kind = "throw"
                  /\ inv[p].host.kind = "throw"
                  /\ inv[p].host.text = <<>>

\* C8 witness: list_workflows got a 2xx JSON body of another shape and threw
C8_Witness ==
    /\ inv[1].pc = "done"
    /\ inv[1].tool = "list_workflows"
    /\ inv[1].status = 200
    /\ inv[1].gw.kind = "return"
    /\ inv[1].gw.value.shape = "object"
    /\ inv[1].op.kind = "throw"

KindPrefix(name) ==
    CASE name = "GitHubValidationError" -> "Validation Error: "
      [] name = "GitHubResourceNotFoundError" -> "Not Found: "
      [] name = "GitHubAuthenticationError" -> "Authentication Failed: "
      [] name = "GitHubPermissionError" -> "Permission Denied: "
      [] name = "GitHubRateLimitError" -> "Rate Limit Exceeded: "
      [] name = "GitHubConflictError" -> "Conflict: "
      [] name = "GitHubTimeoutError" -> "Timeout: "
      [] name = "GitHubNetworkError" -> "Network Error: "
      [] OTHER -> "GitHub API Error: "

KindPrefixes == {KindPrefix(n) : n \in GitHubErrorNames}

KindDetail(e) ==
    CASE e.name = "GitHubValidationError" ->
            IF e.response.shape = "empty" THEN <<>>
            ELSE <<"\nDetails: ">> \o stringify(e.response)
      [] e.name = "GitHubRateLimitError" ->
            <<"\nResets at: ", ToString(e.resetAt)>>
      [] e.name = "GitHubTimeoutError" ->
            <<"\nTimeout setting: ", ToString(e.timeoutMs), "ms">>
      [] e.name = "GitHubNetworkError" -> <<"\nError code: ", e.errorCode>>
      [] OTHER -> <<>>

\* C9 as stated: every error the operations raise, the local ones included,
\* reaches the host as one error whose message starts with the kind's prefix
C9_Original ==
    \A p \in Procs :
        (inv[p].pc = "done" /\ inv[p].via = "tool" /\ inv[p].op.kind = "throw") =>
            /\ inv[p].host.kind = "throw"
            /\ inv[p].host.error.name = "Error"
            /\ inv[p].host.error.message # <<>>
            /\ Head(inv[p].host.error.message) \in KindPrefixes

\* C9 amended: every error an operation raises reaches the host as one error.
\* An error of the taxonomy (status-mapped, Timeout, Network, Generic) has the
\* message made of its kind's prefix, its own message and the kind's detail; a
\* response that fails the shape validation is reported as "Invalid input: ";
\* the local errors that are no taxonomy errors (owner/repo validation, the
\* local rate limit) reach the host as they are, without a kind prefix.
C9_ErrorText ==
    \A p \in Procs :
        (inv[p].pc = "done" /\ inv[p].via = "tool" /\ inv[p].op.kind = "throw") =>
            /\ inv[p].host.kind = "throw"
            /\ inv[p].host.text = <<>>
            /\ inv[p].host.error.name = "Error"
            /\ CASE inv[p].op.error.name \in GitHubErrorNames ->
                    inv[p].host.error.message =
                        <<KindPrefix(inv[p].op.error.name)>>
                            \o inv[p].op.error.message
                            \o KindDetail(inv[p].op.error)
                 [] inv[p].op.error.name = "ZodError" ->
                    Head(inv[p].host.error.message) = "Invalid input: "
                 [] OTHER ->
                    /\ inv[p].host.error = inv[p].op.error
                    /\ Head(inv[p].host.error.message) \notin KindPrefixes

\* C9 witness: a Network error reached the host with its prefix and its code
C9_Witness ==
    /\ inv[1].pc = "done"
    /\ inv[1].via = "tool"
    /\ inv[1].op.error.name = "GitHubNetworkError"
    /\ inv[1].host.error.message =
          <<"Network Error: ", "Unable to connect to GitHub API",
            "\nError code: ", "ECONNREFUSED">>

\* the fields of the arguments that violate the tool's declared inputs
BadField(tool, args, f) ==
    CASE f = "owner" -> args.owner.t # "string"
      [] f = "repo" -> args.repo.t # "string"
      [] f = "workflowId" ->
            IF tool \in {"get_workflow", "get_workflow_usage", "trigger_workflow"}
            THEN args.workflowId.t \notin {"string", "number"}
            ELSE /\ tool = "list_workflow_runs"
                 /\ args.workflowId.t \notin {"undefined", "string", "number"}
      [] f = "runId" ->
            /\ tool \in {"get_workflow_run", "get_workflow_run_jobs",
                         "cancel_workflow_run", "rerun_workflow"}
            /\ args.runId.t # "number"
      [] OTHER -> tool = "trigger_workflow" /\ args.ref.t # "string"

ExpectedIssues(tool, args) ==
    SelectSeq(<<"owner", "repo", "workflowId", "runId", "ref">>,
              LAMBDA f : BadField(tool, args, f))

\* the handler ended in this step without calling an operation
NothingCalled(p) ==
    /\ inv'[p].pc = "done"
    /\ inv'[p].host.kind = "throw"
    /\ inv'[p].host.error.name = "Error"
    /\ inv'[p].opCalls = 0
    /\ inv'[p].calls = 0
    /\ inv'[p].fetches = 0
    /\ requestCount' = requestCount
    /\ requestCountResetTime' = requestCountResetTime

\* C10: an invocation without arguments fails with "Arguments are required"
\* whatever the tool name; one whose arguments violate the tool's input shape
\* fails with "Invalid input: " and every violated field; in both cases no
\* operation is called, no fetch is made and the quota is unchanged.
C10_InputErrors ==
    [][\A p \in Procs : Enters(p) =>
        /\ ~inv'[p].hasArgs =>
              /\ NothingCalled(p)
              /\ inv'[p].host.error.message = <<"Arguments are required">>
        /\ (/\ inv'[p].hasArgs
            /\ inv'[p].tool \in Tools
            /\ ExpectedIssues(inv'[p].tool, inv'[p].args) # <<>>) =>
              /\ NothingCalled(p)
              /\ inv'[p].host.error.message =
                    <<"Invalid input: ">>
                        \o ExpectedIssues(inv'[p].tool, inv'[p].args)]_vars

\* C10 witness: trigger_workflow was refused for two missing fields, with part
\* of the quota already used
C10_Witness ==
    /\ inv[1].pc = "done"
    /\ inv[1].tool = "trigger_workflow"
    /\ inv[1].hasArgs
    /\ inv[1].host.error.message = <<"Invalid input: ", "workflowId", "ref">>
    /\ inv[1].opCalls = 0
    /\ requestCount = 2

\* the number of admissions in the log
RECURSIVE Admissions(_)
Admissions(log) ==
    IF log = <<>> THEN 0 ELSE Head(log)[2] + Admissions(Tail(log))

\* C11 as stated: the quota is enforced over a rolling window: in any interval
\* of 60 seconds at most 60 calls are admitted past the quota check
C11_Original == Admissions(fnOut) <= 60

\* C11 amended: the quota is enforced per fixed window: between two resets of
\* the counter at most 60 calls are admitted, and the counter is reset by the
\* first call made after the reset time; an interval of 60 seconds admits more
\* than 60 calls, and then at most 120, only when it spans a reset.
C11_FixedWindow ==
    /\ fnIn <= 60
    /\ fnIn = requestCount
    /\ Admissions(fnOut) <= 120
    /\ Admissions(fnOut) > 60 => fnOut[1][1] < requestCountResetTime - 60000

\* C11 witness: 60 calls admitted just before the reset time and 60 more just
\* after it, 120 within two milliseconds
C11_Witness ==
    /\ now = 60001
    /\ fnOut = <<<<60000, 60>>, <<60001, 60>>>>
    /\ fnIn = 60
    /\ inv[1].pc = "done"
    /\ IsRateLimitError(inv[1].gw.error)

\* C17: with invocations interleaved at their awaits, the quota check and the
\* increment of a call are one step: the counter stays within 0..60 and equals
\* the number of calls admitted since its last reset; a call made with the
\* quota used up is refused at once (done in the same step, nothing queued, no
\* fetch, no timer), leaves the counter and the other invocations as they
\* are; a call made below the ceiling is admitted and counted once.
C17_AtomicQuota ==
    [][/\ requestCount' \in 0..60
       /\ fnIn' = requestCount'
       /\ \A p \in Procs : Calls(p) =>
            /\ \A q \in Procs \ {p} : inv'[q] = inv[q]
            /\ IF now <= requestCountResetTime /\ requestCount >= 60
               THEN /\ IsRateLimitError(inv'[p].gw.error)
                    /\ inv'[p].pc = "done"
                    /\ inv'[p].fetches = 0
                    /\ ~inv'[p].timerArmed
                    /\ requestCount' = requestCount
                    /\ requestCountResetTime' = requestCountResetTime
               ELSE /\ ~IsRateLimitError(inv'[p].gw.error)
                    /\ inv'[p].pc = "fetching"
                    /\ requestCount' =
                          (IF now > requestCountResetTime THEN 0
                                                          ELSE requestCount) + 1]_vars

\* C17 witness: a call was refused with the quota used up while the other
\* invocation, admitted earlier, is suspended at its await of the body
C17_Witness ==
    /\ requestCount = 60
    /\ inv[1].pc = "parsing"
    /\ inv[2].pc = "done"
    /\ inv[2].via = "tool"
    /\ inv[2].calls = 1
    /\ IsRateLimitError(inv[2].gw.error)

\* the text the action names and its target
AckText(tool, args) ==
    CASE tool = "trigger_workflow" ->
            <<"Workflow ">> \o toString(args.workflowId)
                \o <<" triggered on ">> \o args.ref.s
      [] tool = "cancel_workflow_run" ->
            <<"Workflow run ", ToString(args.runId.n), " cancelled">>
      [] OTHER -> <<"Workflow run ", ToString(args.runId.n), " restarted">>

\* the path below /repos/octo/a-b.c/actions/ the action posts to
AckPath(tool, args) ==
    CASE tool = "trigger_workflow" ->
            <<"workflows/">> \o toString(args.workflowId) \o <<"/dispatches">>
      [] tool = "cancel_workflow_run" ->
            <<"runs/", ToString(args.runId.n), "/cancel">>
      [] OTHER -> <<"runs/", ToString(args.runId.n), "/rerun">>

Query(url) ==
    LET I == {i \in 1..Len(url) : url[i] = "?"}
    IN  IF I = {} THEN <<>>
        ELSE SubSeq(url, CHOOSE i \in I : \A j \in I : i <= j, Len(url))

\* the query string read back as <<key, value>> pairs
RECURSIVE ParseQuery(_)
ParseQuery(q) ==
    IF Len(q) < 3 THEN <<>>
    ELSE IF Len(q) >= 4 /\ q[4] # "&"
    THEN <<<<q[2], <<q[4]>>>>>> \o ParseQuery(SubSeq(q, 5, Len(q)))
    ELSE <<<<q[2], <<>>>>>> \o ParseQuery(SubSeq(q, 4, Len(q)))

\* the pairs of the query string with this key
QueryValues(url, key) ==
    SelectSeq(ParseQuery(Query(url)), LAMBDA kv : kv[1] = key)

\* C13 as stated: excludePullRequests is serialized as "true" when set to true,
\* as "false" when set to false, and is omitted only when it was not set
C13_Original ==
    (fnIn.fn = "listWorkflowRuns" /\ fnOut.done) =>
        QueryValues(fnOut.url, "exclude_pull_requests") =
            CASE fnIn.args.excludePullRequests = Bool(TRUE) ->
                    <<<<"exclude_pull_requests", <<"true">>>>>>
              [] fnIn.args.excludePullRequests = Bool(FALSE) ->
                    <<<<"exclude_pull_requests", <<"false">>>>>>
              [] OTHER -> <<>>

\* C13 amended: excludePullRequests is serialized into the query string, once,
\* as the literal "true" when it is set to true, and is omitted when it is set
\* to false as well as when it is not set: the literal "false" is never sent.
C13_FlagOnlyWhenTrue ==
    (fnIn.fn = "listWorkflowRuns" /\ fnOut.done) =>
        QueryValues(fnOut.url, "exclude_pull_requests") =
            IF fnIn.args.excludePullRequests = Bool(TRUE)
            THEN <<<<"exclude_pull_requests", <<"true">>>>>>
            ELSE <<>>

\* C13 witness: the flag set to false, next to a page number, left no trace in
\* the query string
C13_Witness ==
    /\ fnIn.fn = "listWorkflowRuns"
    /\ fnIn.args.excludePullRequests = Bool(FALSE)
    /\ fnIn.args.page = Num(2)
    /\ fnOut.done
    /\ ParseQuery(Query(fnOut.url)) = <<<<"page", <<"2">>>>>>

\* the string without the spaces at its ends
Strip(s) ==
    LET I == {i \in 1..Len(s) : s[i] # " "}
    IN  IF I = {} THEN <<>>
        ELSE SubSeq(s, CHOOSE i \in I : \A j \in I : i <= j,
                       CHOOSE i \in I : \A j \in I : i >= j)

LowerOf(c) ==
    IF c \in {"A", "B", "O", "C", "T"}
    THEN [A |-> "a", B |-> "b", O |-> "o", C |-> "c", T |-> "t"][c]
    ELSE c

\* the trimmed, lowercased form
Norm(s) == [i \in 1..Len(Strip(s)) |-> LowerOf(Strip(s)[i])]

LettersDigits == {"a", "b", "o", "c", "t", "0", "9"}

\* the owner rule: starts with a letter or digit, hyphens only singly and only
\* between letters or digits, at most 39 characters
OwnerRule(t) ==
    /\ Len(t) \in 1..39
    /\ \A i \in 1..Len(t) : t[i] \in LettersDigits \cup {"-"}
    /\ t[1] # "-"
    /\ t[Len(t)] # "-"
    /\ \A i \in 1..(Len(t) - 1) : ~(t[i] = "-" /\ t[i + 1] = "-")

\* C14: validateOwnerName returns the trimmed, lowercased form of its input
\* when that form satisfies the owner rule, and fails with its own error for
\* every other input (empty or blank, longer than 39 characters, a leading,
\* trailing or doubled hyphen, a character outside [a-z0-9-]).
C14_OwnerRule ==
    (fnIn.fn = "validateOwnerName" /\ fnOut.done) =>
        IF OwnerRule(Norm(fnIn.s))
        THEN fnOut.r.ok /\ fnOut.r.value = Norm(fnIn.s)
        ELSE /\ ~fnOut.r.ok
             /\ fnOut.r.error.name = "Error"
             /\ fnOut.r.error.message \in
                   {<<"Owner name cannot be empty">>,
                    <<"Owner name must start with a letter or number and can contain up to 39 characters">>}

\* C14 witness: an owner of 39 uppercase letters between spaces was returned
\* trimmed and lowercased
C14_Witness ==
    /\ fnIn.fn = "validateOwnerName"
    /\ Len(fnIn.s) = 41
    /\ fnIn.s[2] = "T"
    /\ fnOut.done
    /\ fnOut.r.ok
    /\ Len(fnOut.r.value) = 39
    /\ \A i \in 1..39 : fnOut.r.value[i] = "t"

RepoChars == LettersDigits \cup {"_", ".", "-"}

\* C15 as stated: the validator fails for every name that contains a character
\* outside [a-z0-9_.-] or starts or ends with '.', and is idempotent
C15_Original ==
    (fnIn.fn = "validateRepositoryName" /\ fnOut.done) =>
        /\ (\/ \E i \in 1..Len(fnIn.s) : fnIn.s[i] \notin RepoChars
            \/ fnIn.s # <<>> /\ "." \in {fnIn.s[1], fnIn.s[Len(fnIn.s)]}) =>
              ~fnOut.r.ok
        /\ fnOut.twice => fnOut.again.ok /\ fnOut.again = fnOut.r

\* C15 amended: validateRepositoryName fails for every name whose trimmed,
\* lowercased form contains a character outside [a-z0-9_.-] or starts or ends
\* with '.' (uppercase letters and spaces at the ends do not make it fail), and
\* it is idempotent on what it accepts: the value returned for an accepted
\* name is accepted and returned as it is.
C15_Idempotent ==
    (fnIn.fn = "validateRepositoryName" /\ fnOut.done) =>
        /\ (\/ \E i \in 1..Len(Norm(fnIn.s)) : Norm(fnIn.s)[i] \notin RepoChars
            \/ Norm(fnIn.s) # <<>>
                 /\ "." \in {Norm(fnIn.s)[1], Norm(fnIn.s)[Len(Norm(fnIn.s))]}) =>
              ~fnOut.r.ok
        /\ fnOut.twice => fnOut.again.ok /\ fnOut.again = fnOut.r

\* C15 witness: a name with a space and an uppercase letter was accepted, and
\* the value returned for it was accepted again, unchanged
C15_Witness ==
    /\ fnIn.fn = "validateRepositoryName"
    /\ fnIn.s = <<" ", "T", "a">>
    /\ fnOut.twice
    /\ fnOut.r.value = <<"t", "a">>
    /\ fnOut.again.value = <<"t", "a">>

\* the string form of a value
StringOf(v) == IF v.t = "number" THEN <<ToString(v.n)>> ELSE v.s

\* the keys of params whose value is not undefined, with the value as a string
GivenParams(params) ==
    LET given == SelectSeq(params, LAMBDA kv : kv[2].t # "undefined")
    IN  [i \in 1..Len(given) |-> <<given[i][1], StringOf(given[i][2])>>]

\* C16: the URL buildUrl returns is the base followed by a query string that
\* holds exactly the keys of params whose value is not undefined (0 and the
\* empty string included), each once, with its value as a string; a key whose
\* value is undefined does not appear, nor does the text "undefined".
C16_BuildUrl ==
    (fnIn.fn = "buildUrl" /\ fnOut.done) =>
        /\ ParseQuery(Query(fnOut.url)) = GivenParams(fnIn.params)
        /\ Len(fnOut.url) =
              4 + Len(Query(fnOut.url))
        /\ SubSeq(fnOut.url, 1, 4) =
              <<"https://", "api.github.com", "/", "rate_limit">>
        /\ \A i \in 1..Len(fnOut.url) : fnOut.url[i] # "undefined"
        /\ \A i \in 2..Len(Query(fnOut.url)) : Query(fnOut.url)[i] # "?"

\* C16 witness: of three keys the undefined one was left out and the one with
\* value 0 was kept
C16_Witness ==
    /\ fnIn.fn = "buildUrl"
    /\ fnIn.params = <<<<"a", Num(0)>>, <<"b", Undef>>, <<"c", Str(<<"x">>)>>>>
    /\ fnOut.done
    /\ Query(fnOut.url) = <<"?", "a", "=", "0", "&", "c", "=", "x">>

\* a non-2xx response was received, its body was read and classified, and
\* the invocation of task p has ended
Classified(p) ==
    /\ inv[p].pc = "done"
    /\ inv[p].via = "tool"
    /\ inv[p].fetches = 1
    /\ inv[p].status # 0
    /\ ~Is2xx(inv[p].status)
    /\ inv[p].caught.name \in GitHubErrorNames

MadeUpPayload(e, body) ==
    CASE e.status = 404 ->
            MessagePayload(
                (IF body.message \in {<<Undefined>>, <<>>} THEN <<"Resource">>
                                                           ELSE body.message)
                    \o <<" not found">>)
      [] e.status = 429 -> [MessagePayload(e.message) EXCEPT !.reset_at = e.resetAt]
      [] OTHER -> MessagePayload(e.message)

C19_InvalidInputOnlyForArguments ==
    \A p \in Procs :
        (/\ inv[p].pc = "done"
         /\ inv[p].via = "tool"
         /\ inv[p].host.kind = "throw"
         /\ inv[p].host.error.message # <<>>
         /\ Head(inv[p].host.error.message) = "Invalid input: ") =>
            /\ inv[p].tool \in Tools
            /\ ExpectedIssues(inv[p].tool, inv[p].args) # <<>>
            /\ inv[p].gw.kind # "return"

====
